---- MODULE Spec2Model ----
(***************************************************************************)
(* Model of the negotiation relay of "Version 1/backend/main.py": the      *)
(* in-memory table active_sessions, the two websocket receive loops with   *)
(* their message handlers, the text-generation call of gemini_service.py   *)
(* and the HTTP handlers start/get/end.  The handlers are coroutines on    *)
(* one asyncio event loop: the code between two awaits is one atomic       *)
(* action, and every await is a point where other handlers may run.        *)
(*                                                                         *)
(* websocket_manager.py (ConnectionManager) and database.py (JSONDatabase) *)
(* are not among the sources; they are modelled from their contracts       *)
(* (sections 4.1 and 6 of the specification) and from their call sites.    *)
(*                                                                         *)
(* Left out: the text of a message (no handler branches on it once the     *)
(* product of a session exists) and its timestamp.  Of the negotiation     *)
(* parameters the target price and the maximum budget are kept; they are   *)
(* stored with the session and passed on to the text generation unchanged. *)
(***************************************************************************)
EXTENDS Integers, Sequences, FiniteSets, TLC

\* ---------------------------------------------------------------- bounds
\* Inbound frames (seller messages and overrides) that reach a handler of a
\* session in active_sessions in one run.
MaxMsgs == 2

\* Session identifiers that uuid4 hands out in one run.
Sessions == {"s1"}
\* Websocket connections of the seller side and of the user side.  A name
\* that has disconnected stands for the next connection of that side, and
\* the names are taken in order: "e2" is the name of a seller connection
\* opened while "e1" is in use.
SellerEps == {"e1", "e2"}
UserEps == {"u1"}
Endpoints == SellerEps \cup UserEps
\* Concurrent HTTP callers of POST /api/negotiations/{id}/end, one call each,
\* named in the order their calls begin.
EndCallers == {"c1", "c2"}
\* Request bodies of end: a dict with both keys, and one without "outcome".
Results == { [final_price |-> 10, outcome |-> "deal"],
             [final_price |-> 20, outcome |-> "missing"] }

\* Request bodies of start (NegotiationParams): target price and maximum
\* budget, one with the target within the budget and one with it above.
ValidParams == { [target_price |-> 5, max_budget |-> 10] }
AllParams == ValidParams \cup { [target_price |-> 10, max_budget |-> 5] }
NoParams == [target_price |-> 0, max_budget |-> 0]

Roles == {"seller", "user"}
RoleOf(e) == IF e \in SellerEps THEN "seller" ELSE "user"

VARIABLES
    active_sessions,  \* keys of the dict active_sessions
    session,          \* the NegotiationSession object of each identifier
    db,               \* status of the session stored by db.save_session
    startResp,        \* HTTP status of the start call of each identifier
    startPc,          \* position of the start call that drew each identifier
    model,            \* GeminiAIService.model is set (TRUE) or None (FALSE)
    conn,             \* ConnectionManager: endpoint registered per (session, role)
    ep,               \* each websocket coroutine: position, locals, sends of its handler
    call,             \* each end call: position, arguments, sends, response
    wire,             \* what the latest step handed to the ConnectionManager
    counter,          \* number of uuid4() identifiers drawn for messages
    clock,            \* number of datetime.now() readings of end_negotiation
    accepted          \* per session: ids of the inbound messages, in acceptance order

vars == << active_sessions, session, db, startResp, startPc, model, conn, ep, call,
           wire, counter, clock, accepted >>

\* ------------------------------------------------------------ data model
\* ChatMessage.  The field turn is bookkeeping of the model: the id of the
\* inbound message whose handler created the entry.
ChatMessage(id, sender, sender_type, turn) ==
    [id |-> id, sender |-> sender, sender_type |-> sender_type, turn |-> turn]

\* serialize_message: the dict sent on the wire.
serialize_message(m) ==
    [id |-> m.id, sender |-> m.sender, sender_type |-> m.sender_type]

NoMessage == [id |-> 0, sender |-> "none", sender_type |-> "none"]

\* NegotiationSession before start_negotiation has created it.
NoSession == [status |-> "none", user_params |-> NoParams, messages |-> << >>,
              final_price |-> 0, outcome |-> "none", ended_at |-> 0]

\* NegotiationSession(..., user_params=params, status="active", messages=[])
NewSession(params) ==
    [status |-> "active", user_params |-> params, messages |-> << >>,
     final_price |-> 0, outcome |-> "none", ended_at |-> 0]

\* Variant of AppendMessage: messages.insert(0, message).
AppendMessage_Front(msgs, m) == <<m>> \o msgs

\* session.messages.append(message)
AppendMessage(msgs, m) == Append(msgs, m)

\* result.get("outcome", "unknown")
OutcomeOf(result) ==
    IF result.outcome = "missing" THEN "unknown" ELSE result.outcome

\* Identifiers that start_negotiation has returned to its caller.
returned == {s \in DOMAIN startResp : startResp[s] = "200"}

\* Identifiers that no start call has produced (so far): what a client names
\* when it opens a websocket with an identifier of its own making.
unstarted == {s \in DOMAIN startPc : startPc[s] = "idle"}

\* A websocket coroutine outside a handler, and an end call not yet made.
Idle(pc, s) == [pc |-> pc, sid |-> s, turn |-> 0, gen |-> "none", ai |-> 0, out |-> {}]
NoResult == [final_price |-> 0, outcome |-> "none"]
NoCall == [pc |-> "idle", sid |-> "none", result |-> NoResult, found |-> FALSE,
           out |-> {}, resp |-> "none"]

\* --------------------------------------------- collaborators (contracts)
\* ConnectionManager.connect_user / connect_seller: Attach replaces the slot.
Attach(c, s, role, e) == [c EXCEPT ![<<s, role>>] = e]

\* ConnectionManager.disconnect_user / disconnect_seller, per the contract
\* Detach(sessionId, role, endpoint): the slot is cleared only when e is the
\* endpoint registered in it; a Detach by any other endpoint changes nothing.
Detach(c, s, role, e) ==
    IF c[<<s, role>>] = e THEN [c EXCEPT ![<<s, role>>] = "none"] ELSE c

\* The registries one call manager.disconnect_user(session_id) /
\* disconnect_seller(session_id) can leave behind when the socket e has
\* disconnected.  The call names the session only: a manager that removes
\* the entry of the session clears the slot whoever is registered in it, a
\* manager that keeps to the contract of Detach leaves alone a slot that
\* names another socket.  For the registered socket the two agree.
DisconnectCall(c, s, role, e) ==
    {Detach(c, s, role, e), [c EXCEPT ![<<s, role>>] = "none"]}

\* One call of manager.send_to_user / send_to_seller: session, role and the
\* dict passed ("type", "message", "sender"; the "result" of session_ended
\* is left out).
Payload(s, role, type, message, sender) ==
    [sid |-> s, role |-> role, type |-> type, message |-> message,
     sender |-> sender]

\* The sends a handler has made so far, with one more.
Send(out, p) == out \cup {p}

\* ConnectionManager.send_to_user / send_to_seller fails with TransportError:
\* the slot names a socket whose receive loop has ended (main.py leaves such
\* a registration behind when the loop ends with an exception other than
\* WebSocketDisconnect).
SendFails(c, p) ==
    /\ c[<<p.sid, p.role>>] # "none"
    /\ ep[c[<<p.sid, p.role>>]].pc = "closed"

\* ConnectionManager.send_to_user / send_to_seller: the payload goes to the
\* endpoint registered for the role (to); with none registered ("none") it
\* is dropped and nothing is raised; on a socket that has ended the send
\* fails ("error") and TransportError is raised to the caller.
Deliver(c, p) ==
    {[sid |-> p.sid, role |-> p.role, type |-> p.type, message |-> p.message,
      sender |-> p.sender,
      to |-> IF SendFails(c, p) THEN "error" ELSE c[<<p.sid, p.role>>]]}

\* The registry after a send: a TransportError detaches the endpoint that
\* failed (implicit Detach).
AfterSend(c, p) ==
    IF SendFails(c, p) THEN Detach(c, p.sid, p.role, c[<<p.sid, p.role>>]) ELSE c

\* db.save_session(session): the stored copy replaces the earlier one.
SaveSession(d, s, obj) == [d EXCEPT ![s] = obj.status]

RECURSIVE SumLen(_, _)
SumLen(f, S) ==
    IF S = {} THEN 0
    ELSE LET x == CHOOSE y \in S : TRUE IN Len(f[x]) + SumLen(f, S \ {x})

NumAccepted == SumLen(accepted, DOMAIN accepted)

\* Frames whose handler drew an identifier and raised before appending: the
\* identifiers drawn that no entry of a history carries.
NumRejected ==
    counter - SumLen([s \in DOMAIN session |-> session[s].messages],
                     DOMAIN session)

NumHandled == NumAccepted + NumRejected

\* ------------------------------------------------------------------ Init
Init ==
    /\ active_sessions = {}
    /\ session = [s \in Sessions |-> NoSession]
    /\ db = [s \in Sessions |-> "none"]
    /\ startResp = [s \in Sessions |-> "none"]
    /\ startPc = [s \in Sessions |-> "idle"]
    /\ model \in BOOLEAN
    /\ conn = [k \in Sessions \X Roles |-> "none"]
    /\ ep = [e \in Endpoints |-> Idle("closed", "none")]
    /\ call = [c \in EndCallers |-> NoCall]
    /\ wire = {}
    /\ counter = 0
    /\ clock = 0
    /\ accepted = [s \in Sessions |-> << >>]

\* ------------------------------------------------------ start_negotiation
\* POST /api/negotiations/start, in the three segments its two awaits cut it
\* into.  Other handlers run between the segments; the identifier is known
\* to no client before the call has answered.
\*
\* First segment, up to the await of db.save_session: uuid4 gives an
\* identifier never used before, by start or by a connected client; the
\* session is created, put into active_sessions and handed to the database.
\* The parameters are stored as they come: nothing compares the target price
\* with the maximum budget.
start_negotiation(s, params) ==
    /\ startPc[s] = "idle"
    /\ \A e \in Endpoints : ep[e].sid # s
    /\ active_sessions' = active_sessions \cup {s}
    /\ session' = [session EXCEPT ![s] = NewSession(params)]
    /\ db' = SaveSession(db, s, NewSession(params))
    /\ startPc' = [startPc EXCEPT ![s] = "save_session"]
    /\ wire' = {}
    /\ UNCHANGED << startResp, model, conn, ep, call, counter, clock, accepted >>

\* Second segment: db.save_session has returned and the call waits in
\* db.get_product.
StartLookup(s) ==
    /\ startPc[s] = "save_session"
    /\ startPc' = [startPc EXCEPT ![s] = "get_product"]
    /\ wire' = {}
    /\ UNCHANGED << active_sessions, session, db, startResp, model, conn, ep,
                    call, counter, clock, accepted >>

\* Third segment: with the product the call answers 200 and the identifier;
\* without it HTTPException(404) is raised inside the try and rewrapped as
\* status 500, the session staying in active_sessions and in the database.
StartReturn(s, productExists) ==
    /\ startPc[s] = "get_product"
    /\ startPc' = [startPc EXCEPT ![s] = "done"]
    /\ startResp' = [startResp EXCEPT ![s] = IF productExists THEN "200" ELSE "500"]
    /\ wire' = {}
    /\ UNCHANGED << active_sessions, session, db, model, conn, ep, call,
                    counter, clock, accepted >>

\* ------------------------------------------------------ websocket endpoints
\* Variant of Connect: a slot that already has an endpoint keeps it.
Connect_KeepFirst(e, s) ==
    /\ ep[e].pc = "closed"
    /\ (e = "e2" => ep["e1"].pc # "closed")
    /\ s \in returned \cup unstarted
    /\ conn' = IF conn[<<s, RoleOf(e)>>] = "none"
               THEN Attach(conn, s, RoleOf(e), e) ELSE conn
    /\ ep' = [ep EXCEPT ![e] = Idle("recv", s)]
    /\ wire' = {}
    /\ UNCHANGED << active_sessions, session, db, startResp, startPc, model, call,
                    counter, clock, accepted >>

\* A client opens /ws/seller/{id} or /ws/user/{id}, with an identifier it
\* got from start or with one that start never produced (the endpoint does
\* not look the identifier up): manager.connect_* registers the socket and
\* the receive loop starts.
Connect(e, s) ==
    /\ ep[e].pc = "closed"
    /\ (e = "e2" => ep["e1"].pc # "closed")
    /\ s \in returned \cup unstarted
    /\ conn' = Attach(conn, s, RoleOf(e), e)
    /\ ep' = [ep EXCEPT ![e] = Idle("recv", s)]
    /\ wire' = {}
    /\ UNCHANGED << active_sessions, session, db, startResp, startPc, model, call,
                    counter, clock, accepted >>

\* receive_text raises WebSocketDisconnect: manager.disconnect_*(session_id),
\* called from the coroutine of the socket that disconnected, with the
\* session identifier as its only argument.
Disconnect(e) ==
    /\ ep[e].pc = "recv"
    /\ conn' \in DisconnectCall(conn, ep[e].sid, RoleOf(e), e)
    /\ ep' = [ep EXCEPT ![e] = Idle("closed", "none")]
    /\ wire' = {}
    /\ UNCHANGED << active_sessions, session, db, startResp, startPc, model, call,
                    counter, clock, accepted >>

\* The receive loop ends with an exception other than WebSocketDisconnect,
\* which the endpoint does not catch: the coroutine ends and
\* manager.disconnect_* is not called, so the slot keeps naming the socket.
\*
\* The frame is not JSON ("not json", "", "{"): json.loads raises.
BadJsonFrame(e) ==
    /\ ep[e].pc = "recv"
    /\ ep' = [ep EXCEPT ![e] = Idle("closed", "none")]
    /\ wire' = {}
    /\ UNCHANGED << active_sessions, session, db, startResp, startPc, model,
                    conn, call, counter, clock, accepted >>

\* The frame is JSON but no object ("[1, 2]") and the session is in
\* active_sessions: the handler draws the uuid4 of the message it is
\* building, message_data.get raises AttributeError, nothing is appended or
\* sent.  (For a session not in active_sessions the handler returns before
\* it looks at the frame: UserDrop, SellerDrop.)
NonObjectFrame(e) ==
    /\ ep[e].pc = "recv"
    /\ ep[e].sid \in active_sessions
    /\ NumHandled < MaxMsgs
    /\ counter' = counter + 1
    /\ ep' = [ep EXCEPT ![e] = Idle("closed", "none")]
    /\ wire' = {}
    /\ UNCHANGED << active_sessions, session, db, startResp, startPc, model,
                    conn, call, clock, accepted >>

\* ---------------------------------------------------- handle_user_message
\* The identifier is not in active_sessions: the handler returns at once.
UserDrop(e) ==
    /\ e \in UserEps
    /\ ep[e].pc = "recv"
    /\ ep[e].sid \notin active_sessions
    /\ wire' = {}
    /\ UNCHANGED << active_sessions, session, db, startResp, startPc, model, conn, ep,
                    call, counter, clock, accepted >>

\* Variant of UserAccept: the override is echoed to the user side as well.
UserAccept_Echo(e) ==
    /\ e \in UserEps
    /\ ep[e].pc = "recv"
    /\ ep[e].sid \in active_sessions
    /\ NumHandled < MaxMsgs
    /\ LET s == ep[e].sid
           id == counter + 1
           m == ChatMessage(id, "user", "override", id)
           p == Payload(s, "seller", "message", serialize_message(m), "buyer")
           q == Payload(s, "user", "message", serialize_message(m), "buyer")
       IN /\ counter' = id
          /\ session' = [session EXCEPT ![s].messages = AppendMessage(@, m)]
          /\ ep' = [ep EXCEPT ![e].pc = "u_save", ![e].turn = id,
                              ![e].out = Send(Send(@, p), q)]
          /\ wire' = Deliver(conn, p) \cup Deliver(conn, q)
          /\ conn' = AfterSend(AfterSend(conn, p), q)
          /\ accepted' = [accepted EXCEPT ![s] = Append(@, id)]
    /\ UNCHANGED << active_sessions, db, startResp, startPc, model, call, clock >>

\* Variant of UserAccept: the override is appended only when a seller
\* endpoint was there to take it.
UserAccept_AppendIfDelivered(e) ==
    /\ e \in UserEps
    /\ ep[e].pc = "recv"
    /\ ep[e].sid \in active_sessions
    /\ NumHandled < MaxMsgs
    /\ LET s == ep[e].sid
           id == counter + 1
           m == ChatMessage(id, "user", "override", id)
           p == Payload(s, "seller", "message", serialize_message(m), "buyer")
       IN /\ counter' = id
          /\ session' = IF conn[<<s, "seller">>] # "none"
                        THEN [session EXCEPT ![s].messages = AppendMessage(@, m)]
                        ELSE session
          /\ ep' = [ep EXCEPT ![e].pc = "u_save", ![e].turn = id,
                              ![e].out = Send(@, p)]
          /\ wire' = Deliver(conn, p)
          /\ conn' = AfterSend(conn, p)
          /\ accepted' = IF conn[<<s, "seller">>] # "none"
                         THEN [accepted EXCEPT ![s] = Append(@, id)]
                         ELSE accepted
    /\ UNCHANGED << active_sessions, db, startResp, startPc, model, call, clock >>

\* Lines 184-204: the override is created, appended and sent to the seller.
\* A send that raises leaves the handler and the receive loop (nothing
\* catches it): the session is not saved and disconnect_user is not called.
UserAccept(e) ==
    /\ e \in UserEps
    /\ ep[e].pc = "recv"
    /\ ep[e].sid \in active_sessions
    /\ NumHandled < MaxMsgs
    /\ LET s == ep[e].sid
           id == counter + 1
           m == ChatMessage(id, "user", "override", id)
           p == Payload(s, "seller", "message", serialize_message(m), "buyer")
       IN /\ counter' = id
          /\ session' = [session EXCEPT ![s].messages = AppendMessage(@, m)]
          /\ ep' = IF SendFails(conn, p)
                   THEN [ep EXCEPT ![e] = Idle("closed", "none")]
                   ELSE [ep EXCEPT ![e].pc = "u_save", ![e].turn = id,
                                   ![e].out = Send(@, p)]
          /\ wire' = Deliver(conn, p)
          /\ conn' = AfterSend(conn, p)
          /\ accepted' = [accepted EXCEPT ![s] = Append(@, id)]
    /\ UNCHANGED << active_sessions, db, startResp, startPc, model, call, clock >>

\* Line 207: db.save_session(session), then back to receive_text.
UserSave(e) ==
    /\ ep[e].pc = "u_save"
    /\ db' = SaveSession(db, ep[e].sid, session[ep[e].sid])
    /\ ep' = [ep EXCEPT ![e] = Idle("recv", ep[e].sid)]
    /\ wire' = {}
    /\ UNCHANGED << active_sessions, session, startResp, startPc, model, conn, call,
                    counter, clock, accepted >>

\* -------------------------------------------------- handle_seller_message
\* The identifier is not in active_sessions: the handler returns at once.
SellerDrop(e) ==
    /\ e \in SellerEps
    /\ ep[e].pc = "recv"
    /\ ep[e].sid \notin active_sessions
    /\ wire' = {}
    /\ UNCHANGED << active_sessions, session, db, startResp, startPc, model, conn, ep,
                    call, counter, clock, accepted >>

\* Variant of SellerAccept: the handler does not look the identifier up in
\* active_sessions before it relays.
SellerAccept_NoCheck(e) ==
    /\ e \in SellerEps
    /\ ep[e].pc = "recv"
    /\ ep[e].sid \in DOMAIN session
    /\ NumHandled < MaxMsgs
    /\ LET s == ep[e].sid
           id == counter + 1
           m == ChatMessage(id, "seller", "human", id)
           p == Payload(s, "user", "message", serialize_message(m), "seller")
       IN /\ counter' = id
          /\ session' = [session EXCEPT ![s].messages = AppendMessage(@, m)]
          /\ ep' = [ep EXCEPT ![e].pc = "gen", ![e].turn = id, ![e].gen = "pending",
                              ![e].out = Send(@, p)]
          /\ wire' = Deliver(conn, p)
          /\ conn' = AfterSend(conn, p)
          /\ accepted' = [accepted EXCEPT ![s] = Append(@, id)]
    /\ UNCHANGED << active_sessions, db, startResp, startPc, model, call, clock >>

\* Lines 215-235: the seller message is created, appended and sent to the
\* user.  The send is outside the try block: when it raises, the handler and
\* the receive loop end, with no generation call, no save and no
\* disconnect_seller.
SellerAccept(e) ==
    /\ e \in SellerEps
    /\ ep[e].pc = "recv"
    /\ ep[e].sid \in active_sessions
    /\ NumHandled < MaxMsgs
    /\ LET s == ep[e].sid
           id == counter + 1
           m == ChatMessage(id, "seller", "human", id)
           p == Payload(s, "user", "message", serialize_message(m), "seller")
       IN /\ counter' = id
          /\ session' = [session EXCEPT ![s].messages = AppendMessage(@, m)]
          /\ ep' = IF SendFails(conn, p)
                   THEN [ep EXCEPT ![e] = Idle("closed", "none")]
                   ELSE [ep EXCEPT ![e].pc = "gen", ![e].turn = id,
                                   ![e].gen = "pending", ![e].out = Send(@, p)]
          /\ wire' = Deliver(conn, p)
          /\ conn' = AfterSend(conn, p)
          /\ accepted' = [accepted EXCEPT ![s] = Append(@, id)]
    /\ UNCHANGED << active_sessions, db, startResp, startPc, model, call, clock >>

\* GeminiAIService.generate_response once the Gemini call has ended (apiOk)
\* or without a model: "text" when it returns a reply, "raise" when it
\* raises.  With no model the keyword fallback answers.  With a model a
\* failed call reaches _get_fallback_response without its product argument,
\* which raises TypeError.
generate_response(modelSet, apiOk) ==
    IF ~modelSet THEN "text"
    ELSE IF apiOk THEN "text" ELSE "raise"

\* Variant of AgentReply: the reply for a session that is no longer in
\* active_sessions is sent without being appended.
AgentReply_SendOnly(e, g) ==
    LET s == ep[e].sid
        id == counter + 1
        m == ChatMessage(id, "ai", "ai", ep[e].turn)
        p == Payload(s, "seller", "message", serialize_message(m), "buyer")
    IN /\ counter' = id
       /\ session' = IF s \in active_sessions
                     THEN [session EXCEPT ![s].messages = AppendMessage(@, m)]
                     ELSE session
       /\ ep' = [ep EXCEPT ![e].pc = "fan_user", ![e].gen = g, ![e].ai = id,
                           ![e].out = Send(@, p)]
       /\ wire' = Deliver(conn, p)
       /\ conn' = AfterSend(conn, p)

\* Lines 274-280, the except branch of the seller handler: the error is
\* sent to the user side and the handler goes on to save the session.  c is
\* the registry, out and w the payloads and deliveries of the step so far.
\* When this send raises too, nothing catches it: the handler and the
\* receive loop end without a save.
ReportError(e, g, ai, c, out, w) ==
    LET q == Payload(ep[e].sid, "user", "error", NoMessage, "none")
    IN /\ wire' = w \cup Deliver(c, q)
       /\ conn' = AfterSend(c, q)
       /\ ep' = IF SendFails(c, q)
                THEN [ep EXCEPT ![e] = Idle("closed", "none")]
                ELSE [ep EXCEPT ![e].pc = "s_save", ![e].gen = g, ![e].ai = ai,
                                ![e].out = Send(out, q)]

\* Lines 247-265, taken when generate_response has returned (g = "text"):
\* the agent message is created, appended to the session object the handler
\* holds and sent to the seller as "buyer".  The send at line 261 is inside
\* the try block: when it raises, the except branch runs after the append
\* and the send of line 268 is skipped.
AgentReply(e, g) ==
    LET s == ep[e].sid
        id == counter + 1
        m == ChatMessage(id, "ai", "ai", ep[e].turn)
        p == Payload(s, "seller", "message", serialize_message(m), "buyer")
    IN /\ counter' = id
       /\ session' = [session EXCEPT ![s].messages = AppendMessage(@, m)]
       /\ IF SendFails(conn, p)
          THEN ReportError(e, g, id, AfterSend(conn, p), Send(ep[e].out, p),
                           Deliver(conn, p))
          ELSE /\ ep' = [ep EXCEPT ![e].pc = "fan_user", ![e].gen = g,
                                   ![e].ai = id, ![e].out = Send(@, p)]
               /\ wire' = Deliver(conn, p)
               /\ conn' = conn

\* Variant of GenerationError: a canned reply is appended before the error
\* is reported.
GenerationError_Replies(e, g) ==
    LET s == ep[e].sid
        id == counter + 1
        m == ChatMessage(id, "ai", "ai", ep[e].turn)
        p == Payload(s, "user", "error", NoMessage, "none")
    IN /\ counter' = id
       /\ session' = [session EXCEPT ![s].messages = AppendMessage(@, m)]
       /\ ep' = [ep EXCEPT ![e].pc = "s_save", ![e].gen = g, ![e].out = Send(@, p)]
       /\ wire' = Deliver(conn, p)
       /\ conn' = AfterSend(conn, p)

\* Variant of GenerationError: the error is reported to the seller side.
GenerationError_ToSeller(e, g) ==
    LET p == Payload(ep[e].sid, "seller", "error", NoMessage, "none")
    IN /\ ep' = [ep EXCEPT ![e].pc = "s_save", ![e].gen = g, ![e].out = Send(@, p)]
       /\ wire' = Deliver(conn, p)
       /\ conn' = AfterSend(conn, p)
       /\ UNCHANGED << counter, session >>

\* Lines 274-280, taken when generate_response has raised (g = "raise"):
\* the except branch runs with nothing appended.
GenerationError(e, g) ==
    /\ ReportError(e, g, ep[e].ai, conn, ep[e].out, {})
    /\ UNCHANGED << counter, session >>

\* Variant of SellerGenerate: one generation call at a time in the whole
\* process.
SellerGenerate_Exclusive(e) ==
    /\ ep[e].pc = "gen"
    /\ \A f \in SellerEps : ep[f].pc # "waiting"
    /\ IF ~model
       THEN AgentReply(e, generate_response(model, FALSE))
       ELSE /\ ep' = [ep EXCEPT ![e].pc = "waiting"]
            /\ wire' = {}
            /\ UNCHANGED << counter, session, conn >>
    /\ UNCHANGED << active_sessions, db, startResp, startPc, model, call, clock,
                    accepted >>

\* Lines 239-245: db.get_product has answered and generate_response runs up
\* to its first suspension: without a model it returns the fallback text at
\* once, with a model it waits for the executor running generate_content.
SellerGenerate(e) ==
    /\ ep[e].pc = "gen"
    /\ IF ~model
       THEN AgentReply(e, generate_response(model, FALSE))
       ELSE /\ ep' = [ep EXCEPT ![e].pc = "waiting"]
            /\ wire' = {}
            /\ UNCHANGED << counter, session, conn >>
    /\ UNCHANGED << active_sessions, db, startResp, startPc, model, call, clock,
                    accepted >>

\* The executor future of _call_gemini_api completes, with a response or
\* with an exception.
SellerGenReturn(e, apiOk) ==
    /\ ep[e].pc = "waiting"
    /\ LET g == generate_response(model, apiOk)
       IN IF g = "text" THEN AgentReply(e, g) ELSE GenerationError(e, g)
    /\ UNCHANGED << active_sessions, db, startResp, startPc, model, call, clock,
                    accepted >>

\* Variant of SellerFanoutUser: the monitoring copy goes to the seller side.
SellerFanoutUser_ToSeller(e) ==
    /\ ep[e].pc = "fan_user"
    /\ LET s == ep[e].sid
           m == ChatMessage(ep[e].ai, "ai", "ai", ep[e].turn)
           p == Payload(s, "seller", "ai_response", serialize_message(m), "ai")
       IN /\ ep' = [ep EXCEPT ![e].pc = "s_save", ![e].out = Send(@, p)]
          /\ wire' = Deliver(conn, p)
          /\ conn' = AfterSend(conn, p)
    /\ UNCHANGED << active_sessions, session, db, startResp, startPc, model, call,
                    counter, clock, accepted >>

\* Lines 267-272: ai_message, which the handler still holds, goes to the
\* user side as ai_response.  When the send raises, the except branch of
\* lines 274-280 runs.
SellerFanoutUser(e) ==
    /\ ep[e].pc = "fan_user"
    /\ LET s == ep[e].sid
           m == ChatMessage(ep[e].ai, "ai", "ai", ep[e].turn)
           p == Payload(s, "user", "ai_response", serialize_message(m), "ai")
       IN IF SendFails(conn, p)
          THEN ReportError(e, ep[e].gen, ep[e].ai, AfterSend(conn, p),
                           Send(ep[e].out, p), Deliver(conn, p))
          ELSE /\ ep' = [ep EXCEPT ![e].pc = "s_save", ![e].out = Send(@, p)]
               /\ wire' = Deliver(conn, p)
               /\ conn' = conn
    /\ UNCHANGED << active_sessions, session, db, startResp, startPc, model, call,
                    counter, clock, accepted >>

\* Line 283: db.save_session(session), then back to receive_text.
SellerSave(e) ==
    /\ ep[e].pc = "s_save"
    /\ db' = SaveSession(db, ep[e].sid, session[ep[e].sid])
    /\ ep' = [ep EXCEPT ![e] = Idle("recv", ep[e].sid)]
    /\ wire' = {}
    /\ UNCHANGED << active_sessions, session, startResp, startPc, model, conn, call,
                    counter, clock, accepted >>

\* --------------------------------------------------------- end_negotiation
\* Lines 309-312: status, final price, outcome and completion time.
Complete(obj, result, now) ==
    [obj EXCEPT !.status = "completed",
                !.final_price = result.final_price,
                !.outcome = OutcomeOf(result),
                !.ended_at = now]

\* Lines 307-315: the identifier is looked up; a session found is stamped
\* and saved.  An identifier that is not in active_sessions skips the whole
\* branch and the call answers 200.
EndBegin(c, s, result) ==
    /\ call[c].pc = "idle"
    /\ (c = "c2" => call["c1"].pc # "idle")
    /\ s \in returned
    /\ IF s \in active_sessions
       THEN /\ clock' = clock + 1
            /\ session' = [session EXCEPT ![s] = Complete(@, result, clock + 1)]
            /\ db' = SaveSession(db, s, session'[s])
            /\ call' = [call EXCEPT ![c] = [pc |-> "e_user", sid |-> s,
                                            result |-> result, found |-> TRUE,
                                            out |-> {}, resp |-> "none"]]
       ELSE /\ call' = [call EXCEPT ![c] = [pc |-> "done", sid |-> s,
                                            result |-> NoResult, found |-> FALSE,
                                            out |-> {}, resp |-> "200"]]
            /\ UNCHANGED << clock, session, db >>
    /\ wire' = {}
    /\ UNCHANGED << active_sessions, startResp, startPc, model, conn, ep, counter, accepted >>

\* Lines 332-333: an exception raised inside the try block of
\* end_negotiation is answered with status 500; what the block had still to
\* do (the other send, the removal from active_sessions) is not done.
EndRaise(c) ==
    [call EXCEPT ![c].pc = "done", ![c].result = NoResult, ![c].resp = "500"]

\* Lines 318-321: session_ended to the user side.
EndNotifyUser(c) ==
    /\ call[c].pc = "e_user"
    /\ LET p == Payload(call[c].sid, "user", "session_ended", NoMessage, "none")
       IN /\ call' = IF SendFails(conn, p)
                     THEN EndRaise(c)
                     ELSE [call EXCEPT ![c].pc = "e_seller", ![c].out = Send(@, p)]
          /\ wire' = Deliver(conn, p)
          /\ conn' = AfterSend(conn, p)
    /\ UNCHANGED << active_sessions, session, db, startResp, startPc, model, ep,
                    counter, clock, accepted >>

\* Lines 323-326: session_ended to the seller side.
EndNotifySeller(c) ==
    /\ call[c].pc = "e_seller"
    /\ LET p == Payload(call[c].sid, "seller", "session_ended", NoMessage, "none")
       IN /\ call' = IF SendFails(conn, p)
                     THEN EndRaise(c)
                     ELSE [call EXCEPT ![c].pc = "e_del", ![c].out = Send(@, p)]
          /\ wire' = Deliver(conn, p)
          /\ conn' = AfterSend(conn, p)
    /\ UNCHANGED << active_sessions, session, db, startResp, startPc, model, ep,
                    counter, clock, accepted >>

\* Lines 329-333: del active_sessions[session_id]; a key that another end
\* call has removed meanwhile raises KeyError, answered with status 500.
EndDelete(c) ==
    /\ call[c].pc = "e_del"
    /\ active_sessions' = active_sessions \ {call[c].sid}
    /\ call' = [call EXCEPT ![c].pc = "done", ![c].result = NoResult,
                            ![c].resp = IF call[c].sid \in active_sessions
                                        THEN "200" ELSE "500"]
    /\ wire' = {}
    /\ UNCHANGED << session, db, startResp, startPc, model, conn, ep, counter, clock,
                    accepted >>

\* -------------------------------------------------- get_negotiation_session
\* Lines 289-300: the session comes from active_sessions or else from the
\* database; the 404 raised for a session found in neither is caught by the
\* handler's own except clause and answered with status 500.  The call reads
\* and changes nothing, so its answer is a function of the state.
get_negotiation_session(s) ==
    IF s \in active_sessions
    THEN [status |-> "200", session |-> session[s].status]
    ELSE IF db[s] # "none"
         THEN [status |-> "200", session |-> db[s]]
         ELSE [status |-> "500", session |-> "none"]

GetCall(s) ==
    /\ get_negotiation_session(s).status \in {"200", "500"}
    /\ wire' = {}
    /\ UNCHANGED << active_sessions, session, db, startResp, startPc, model, conn, ep,
                    call, counter, clock, accepted >>

\* ------------------------------------------------------------------- Next
Next ==
    \/ \E s \in Sessions, prm \in ValidParams : start_negotiation(s, prm)
    \/ \E s \in Sessions : StartLookup(s)
    \/ \E s \in Sessions, p \in BOOLEAN : StartReturn(s, p)
    \/ \E e \in Endpoints, s \in Sessions : Connect(e, s)
    \/ \E e \in Endpoints : Disconnect(e)
    \/ \E e \in Endpoints : BadJsonFrame(e)
    \/ \E e \in Endpoints : NonObjectFrame(e)
    \/ \E e \in UserEps : UserDrop(e)
    \/ \E e \in UserEps : UserAccept(e)
    \/ \E e \in UserEps : UserSave(e)
    \/ \E e \in SellerEps : SellerDrop(e)
    \/ \E e \in SellerEps : SellerAccept(e)
    \/ \E e \in SellerEps : SellerGenerate(e)
    \/ \E e \in SellerEps, ok \in BOOLEAN : SellerGenReturn(e, ok)
    \/ \E e \in SellerEps : SellerFanoutUser(e)
    \/ \E e \in SellerEps : SellerSave(e)
    \/ \E c \in EndCallers, s \in Sessions, r \in Results : EndBegin(c, s, r)
    \/ \E c \in EndCallers : EndNotifyUser(c)
    \/ \E c \in EndCallers : EndNotifySeller(c)
    \/ \E c \in EndCallers : EndDelete(c)
    \/ \E s \in Sessions : GetCall(s)

Spec == Init /\ [][Next]_vars

\* ------------------------------------------------- two sessions, fairness
\* The same handlers serving two sessions: SessionA, whose generation call
\* may stay outstanding for ever, and SessionB.  Only the start call and the
\* seller connections take part.
SessionA == "s1"
SessionB == "s2"
TwoSessions == {SessionA, SessionB}

InitTwoSessions ==
    /\ active_sessions = {}
    /\ session = [s \in TwoSessions |-> NoSession]
    /\ db = [s \in TwoSessions |-> "none"]
    /\ startResp = [s \in TwoSessions |-> "none"]
    /\ startPc = [s \in TwoSessions |-> "idle"]
    /\ model \in BOOLEAN
    /\ conn = [k \in TwoSessions \X Roles |-> "none"]
    /\ ep = [e \in Endpoints |-> Idle("closed", "none")]
    /\ call = [c \in EndCallers |-> NoCall]
    /\ wire = {}
    /\ counter = 0
    /\ clock = 0
    /\ accepted = [s \in TwoSessions |-> << >>]

NextTwoSessions ==
    \/ \E s \in TwoSessions, prm \in AllParams : start_negotiation(s, prm)
    \/ \E s \in TwoSessions : StartLookup(s)
    \/ \E s \in TwoSessions, p \in BOOLEAN : StartReturn(s, p)
    \/ \E e \in SellerEps, s \in TwoSessions : Connect(e, s)
    \/ \E e \in SellerEps : SellerAccept(e)
    \/ \E e \in SellerEps : SellerGenerate(e)
    \/ \E e \in SellerEps, ok \in BOOLEAN : SellerGenReturn(e, ok)
    \/ \E e \in SellerEps : SellerFanoutUser(e)
    \/ \E e \in SellerEps : SellerSave(e)

\* The steps of a seller handler that wait only for the event loop, the
\* ConnectionManager and the database: a coroutine that is ready is resumed.
TurnSteps(e) == SellerGenerate(e) \/ SellerFanoutUser(e) \/ SellerSave(e)

\* The executor future of a handler of SessionB completes.  Nothing makes
\* the future of a handler of SessionA complete: run_in_executor is awaited
\* without a timeout.
GenReturnB(e) ==
    ep[e].sid = SessionB /\ \E ok \in BOOLEAN : SellerGenReturn(e, ok)

FairTurns ==
    \A e \in SellerEps : WF_vars(TurnSteps(e)) /\ WF_vars(GenReturnB(e))

SpecTwoSessions == InitTwoSessions /\ [][NextTwoSessions]_vars /\ FairTurns

\* ================================================================ claims
Hist(s) == session[s].messages

\* The wire form sm is the serialization of an entry of the history of s.
InHistory(s, sm) ==
    \E i \in 1..Len(Hist(s)) : serialize_message(Hist(s)[i]) = sm

IsPrefix(a, b) == Len(a) <= Len(b) /\ SubSeq(b, 1, Len(a)) = a

\* The delivery d went to a socket whose receive loop is running.
Reached(d, eps) == d.to \in eps /\ ep[d.to].pc # "closed"

\* Positions of a seller handler between accepting a message and returning.
SellerBusy == {"gen", "waiting", "fan_user", "s_save"}
\* Payload types that carry a Message.
MessageTypes == {"message", "ai_response"}

\* Ids of the seller-origin and override-origin entries, in history order.
InboundIds(msgs) ==
    LET sel == SelectSeq(msgs, LAMBDA m : m.sender \in {"seller", "user"})
    IN [i \in 1..Len(sel) |-> sel[i].id]

AgentEntries(s, t) ==
    {i \in 1..Len(Hist(s)) : Hist(s)[i].sender = "ai" /\ Hist(s)[i].turn = t}
SellerEntries(s, t) ==
    {i \in 1..Len(Hist(s)) : Hist(s)[i].sender = "seller" /\ Hist(s)[i].turn = t}

\* ---------------------------------------------------------------------
\* C1: in every session the seller and override entries of the history are
\* the inbound messages in the order their handlers accepted them, and a
\* step only ever appends to a history: every entry keeps its place.
C1_Order == \A s \in Sessions : InboundIds(Hist(s)) = accepted[s]
C1_AppendOrder ==
    /\ []C1_Order
    /\ [][\A s \in Sessions : IsPrefix(session[s].messages, session'[s].messages)]_vars

\* A seller message and an override accepted on one session, with an agent
\* reply appended as well.
C1_Witness ==
    \E s \in Sessions :
        /\ Len(accepted[s]) >= 2
        /\ \E i, j, k \in 1..Len(Hist(s)) :
              /\ Hist(s)[i].sender = "seller"
              /\ Hist(s)[j].sender = "user"
              /\ Hist(s)[k].sender = "ai"

\* ---------------------------------------------------------------------
\* C2: a seller handler that has accepted a message has added exactly one
\* seller entry (sender seller, sender_type human) for it; the history holds
\* exactly one agent entry (sender ai, sender_type ai) of that turn, placed
\* after the seller entry, when generate_response returned a text, and none
\* while the call is pending or when it raised.  No seller entry ever has
\* more than one agent entry.
C2_TurnEntries ==
    /\ \A e \in SellerEps :
          ep[e].pc \in SellerBusy =>
             LET s == ep[e].sid
                 t == ep[e].turn
             IN /\ Cardinality(SellerEntries(s, t)) = 1
                /\ \A j \in SellerEntries(s, t) :
                      Hist(s)[j].id = t /\ Hist(s)[j].sender_type = "human"
                /\ Cardinality(AgentEntries(s, t)) =
                      IF ep[e].gen = "text" THEN 1 ELSE 0
                /\ \A i \in AgentEntries(s, t) :
                      /\ Hist(s)[i].sender_type = "ai"
                      /\ \A j \in SellerEntries(s, t) : j < i
    /\ \A s \in Sessions : \A i \in 1..Len(Hist(s)) :
          /\ Hist(s)[i].sender = "seller" =>
                Cardinality(AgentEntries(s, Hist(s)[i].turn)) <= 1
          /\ Hist(s)[i].sender = "ai" =>
                \E j \in 1..(i - 1) : Hist(s)[j].sender = "seller"
                                      /\ Hist(s)[j].id = Hist(s)[i].turn

\* A turn whose generation raised, in a session where another turn got its
\* agent entry.
C2_Witness ==
    \E e \in SellerEps :
        /\ ep[e].pc = "s_save"
        /\ ep[e].gen = "raise"
        /\ \E i \in 1..Len(Hist(ep[e].sid)) : Hist(ep[e].sid)[i].sender = "ai"

\* ---------------------------------------------------------------------
\* C3: in a seller turn whose generation raised, the handler has sent
\* nothing to the seller side and exactly two payloads to the user side: the
\* relayed seller message and one error.  An error payload on the wire is
\* addressed to the user side only.
C3_FailurePayloads ==
    /\ \A e \in SellerEps :
          ep[e].gen = "raise" =>
             /\ \A p \in ep[e].out : p.role = "user"
             /\ Cardinality({p \in ep[e].out : p.type = "error"}) = 1
             /\ \A p \in ep[e].out :
                   p.type # "error" =>
                      /\ p.type = "message"
                      /\ p.sender = "seller"
                      /\ p.message.id = ep[e].turn
             /\ Cardinality(ep[e].out) = 2
    /\ \A d \in wire : d.type = "error" => d.role = "user" /\ d.to \notin SellerEps

\* The error payload of a failed turn arrives at the attached user endpoint.
C3_Witness ==
    \E e \in SellerEps :
        /\ ep[e].gen = "raise"
        /\ \E d \in wire : d.type = "error" /\ Reached(d, UserEps)

\* ---------------------------------------------------------------------
\* C4: when end_negotiation has evicted a session while a seller handler of
\* that session waits for its generation call, the step in which the call
\* ends appends nothing to the history of the session and hands no message
\* or ai_response payload to the ConnectionManager.
C4_ResultDiscarded ==
    [][\A e \in SellerEps :
          (/\ ep[e].pc = "waiting"
           /\ ep[e].sid \notin active_sessions
           /\ ep'[e].pc # "waiting")
          => /\ session'[ep[e].sid].messages = session[ep[e].sid].messages
             /\ \A d \in wire' : d.type \notin MessageTypes]_vars

\* ---------------------------------------------------------------------
\* C5: in one session at most one seller turn is open at a time: no two
\* seller handlers of a session are between the append of their seller
\* message and the end of their generation call.
C5_TurnsSerialized ==
    \A s \in Sessions :
        Cardinality({e \in SellerEps :
                        ep[e].sid = s /\ ep[e].pc \in {"gen", "waiting"}}) <= 1

\* ---------------------------------------------------------------------
\* C6: a message or ai_response payload that reaches an attached endpoint
\* carries the serialization of an entry of the history of its session, and
\* a step leaves every entry of a history as it is and in its place:
\* whatever has been delivered is in the history from then on.
C6_DeliveredIsAppended ==
    /\ [](\A d \in wire :
             (d.type \in MessageTypes /\ d.to # "none")
             => InHistory(d.sid, d.message))
    /\ [][\A s \in Sessions : \A i \in DOMAIN session[s].messages :
             /\ i \in DOMAIN session'[s].messages
             /\ session'[s].messages[i] = session[s].messages[i]]_vars

\* An agent reply for a session that end_negotiation has evicted arrives at
\* the attached user endpoint as ai_response.
C6_Witness ==
    \E d \in wire :
        /\ d.type = "ai_response"
        /\ Reached(d, UserEps)
        /\ d.sid \notin active_sessions
        /\ InHistory(d.sid, d.message)

\* ---------------------------------------------------------------------
\* C7: once the status of a session is completed, no step changes its
\* history, final price, outcome or completion time.
C7_CompletedImmutable ==
    [][\A s \in Sessions :
          session[s].status = "completed" => session'[s] = session[s]]_vars

\* ---------------------------------------------------------------------
\* C8: an end call for a session that an earlier end call has removed from
\* active_sessions is not answered with success.
C8_SecondEndFails ==
    \A c \in EndCallers :
        (call[c].pc = "done" /\ ~call[c].found) => call[c].resp # "200"

\* ---------------------------------------------------------------------
\* C9: after an end call that found the session has returned, the session
\* is out of active_sessions and a get for that identifier fails.
C9_GetFailsAfterEnd ==
    \A c \in EndCallers :
        (call[c].pc = "done" /\ call[c].found)
        => /\ call[c].sid \notin active_sessions
           /\ get_negotiation_session(call[c].sid).status # "200"

\* ---------------------------------------------------------------------
\* C10: a message or ai_response payload sent to a role with no endpoint
\* attached is dropped without an exception: the sending handler is at the
\* position that follows the send, and the message is an entry of the
\* history; it is still one when the handler is about to return.
C10_AbsentPeerKeepsMessage ==
    /\ \A d \in wire :
          (d.type \in MessageTypes /\ d.to = "none") =>
             /\ InHistory(d.sid, d.message)
             /\ \E e \in Endpoints :
                   /\ ep[e].sid = d.sid
                   /\ ep[e].pc \in {"u_save", "gen", "fan_user", "s_save"}
                   /\ \E p \in ep[e].out :
                         /\ p.role = d.role
                         /\ p.type = d.type
                         /\ p.message = d.message
    /\ \A e \in Endpoints :
          ep[e].pc \in {"u_save", "s_save"} =>
             \A p \in ep[e].out :
                p.type \in MessageTypes => InHistory(p.sid, p.message)

\* An override is relayed while no seller endpoint is attached.
C10_Witness ==
    \E d \in wire :
        /\ d.type = "message"
        /\ d.role = "seller"
        /\ d.sender = "buyer"
        /\ d.message.sender = "user"
        /\ d.to = "none"
        /\ \E e \in UserEps : ep[e].pc = "u_save" /\ ep[e].turn = d.message.id

\* ---------------------------------------------------------------------
\* C11: a connection that attaches to a (session, role) slot, occupied or
\* not, leaves every session as it is, becomes the one endpoint registered
\* for the slot and leaves the other slots alone; every payload handed to
\* the ConnectionManager goes to the endpoint registered at that moment, so
\* none goes to a superseded endpoint (a send that fails on a socket that
\* has ended reaches no endpoint and leaves the slot empty).
C11_ReattachReplaces ==
    /\ [](\A d \in wire :
             conn[<<d.sid, d.role>>] = (IF d.to = "error" THEN "none" ELSE d.to))
    /\ [][\A e \in Endpoints :
             (ep[e].pc = "closed" /\ ep'[e].pc = "recv") =>
                LET k == <<ep'[e].sid, RoleOf(e)>>
                IN /\ session' = session
                   /\ conn'[k] = e
                   /\ \A j \in DOMAIN conn : j # k => conn'[j] = conn[j]]_vars

\* The agent reply of a turn that came in through "e1" goes to "e2", which
\* attached to the seller slot during the turn.
C11_Witness ==
    /\ ep["e1"].pc = "fan_user"
    /\ ep["e2"].pc = "recv"
    /\ ep["e2"].sid = ep["e1"].sid
    /\ \E d \in wire : d.role = "seller" /\ d.type = "message" /\ d.to = "e2"

\* ---------------------------------------------------------------------
\* C13: a user-side connection is never in the generation part of a
\* handler; an override it has accepted is the one history entry of its
\* turn (sender user, sender_type override), the handler has sent exactly
\* one payload, a message labelled "buyer" to the seller side carrying that
\* entry, and the turn has no agent entry.
C13_OverrideOnly ==
    \A e \in UserEps :
        /\ ep[e].pc \in {"closed", "recv", "u_save"}
        /\ ep[e].gen = "none"
        /\ ep[e].ai = 0
        /\ ep[e].pc = "u_save" =>
              LET s == ep[e].sid
                  t == ep[e].turn
                  mine == {i \in 1..Len(Hist(s)) : Hist(s)[i].turn = t}
              IN /\ Cardinality(mine) = 1
                 /\ \A i \in mine : /\ Hist(s)[i].id = t
                                    /\ Hist(s)[i].sender = "user"
                                    /\ Hist(s)[i].sender_type = "override"
                 /\ ep[e].out =
                       { [sid |-> s, role |-> "seller", type |-> "message",
                          message |-> [id |-> t, sender |-> "user",
                                       sender_type |-> "override"],
                          sender |-> "buyer"] }
                 /\ \A d \in wire : d.role = "user" => d.message.id # t

\* An override has been relayed to the attached seller endpoint.
C13_Witness ==
    \E e \in UserEps :
        /\ ep[e].pc = "u_save"
        /\ \E d \in wire : /\ Reached(d, SellerEps)
                           /\ d.message.id = ep[e].turn
                           /\ d.sender = "buyer"

\* ---------------------------------------------------------------------
\* C14: whatever is sent to the seller role, and whatever reaches a seller
\* endpoint, is a message labelled "buyer" or a session_ended event.
SellerSidePayload(p) ==
    \/ p.type = "message" /\ p.sender = "buyer"
    \/ p.type = "session_ended"

C14_SellerSeesBuyerOnly ==
    /\ \A d \in wire :
          (d.role = "seller" \/ d.to \in SellerEps) =>
             d.role = "seller" /\ SellerSidePayload(d)
    /\ \A e \in Endpoints : \A p \in ep[e].out :
          p.role = "seller" => SellerSidePayload(p)
    /\ \A c \in EndCallers : \A p \in call[c].out :
          p.role = "seller" => SellerSidePayload(p)

\* An agent reply reaches a seller endpoint labelled "buyer" in a session
\* where another turn has failed.
C14_Witness ==
    /\ \E d \in wire : /\ Reached(d, SellerEps)
                       /\ d.message.sender = "ai"
                       /\ d.sender = "buyer"
    /\ \E e \in SellerEps : ep[e].gen = "raise"

\* ---------------------------------------------------------------------
\* C15: a seller handler of SessionB that has accepted a message reaches
\* the end of its turn in every run, also in the runs where the generation
\* call of SessionA stays outstanding for ever; and at each position of its
\* turn its next step can be taken whatever the handlers of SessionA do.
C15_OtherSessionProceeds ==
    /\ [](\A e \in SellerEps :
             ep[e].sid = SessionB =>
                /\ ep[e].pc = "gen" => ENABLED SellerGenerate(e)
                /\ ep[e].pc = "waiting" => ENABLED SellerGenReturn(e, TRUE)
                /\ ep[e].pc = "fan_user" => ENABLED SellerFanoutUser(e)
                /\ ep[e].pc = "s_save" => ENABLED SellerSave(e))
    /\ \A e \in SellerEps :
          (ep[e].sid = SessionB /\ ep[e].pc = "gen") ~> (ep[e].pc = "recv")

\* The turn of SessionB, accepted after the one of SessionA, has its agent
\* reply fanned out while the call of SessionA is still outstanding.
C15_Witness ==
    \E a, b \in SellerEps :
        /\ ep[a].sid = SessionA
        /\ ep[a].pc = "waiting"
        /\ ep[b].sid = SessionB
        /\ ep[b].pc = "s_save"
        /\ ep[b].gen = "text"
        /\ ep[b].turn > ep[a].turn
        /\ \E i \in 1..Len(Hist(SessionB)) : Hist(SessionB)[i].sender = "ai"

\* ---------------------------------------------------------------------
\* C16: a fan-out makes both of its sends whether or not the first one was
\* delivered: a seller handler that has appended its agent reply has sent
\* it to the seller side, and when it is about to save it has also sent the
\* ai_response to the user side; an end call has sent session_ended to the
\* user side before it turns to the seller side, and to both sides before it
\* removes the session.
C16_BothAttemptsMade ==
    /\ \A e \in SellerEps :
          LET m == [id |-> ep[e].ai, sender |-> "ai", sender_type |-> "ai"]
              toSeller == [sid |-> ep[e].sid, role |-> "seller", type |-> "message",
                           message |-> m, sender |-> "buyer"]
              toUser == [sid |-> ep[e].sid, role |-> "user", type |-> "ai_response",
                         message |-> m, sender |-> "ai"]
          IN /\ ep[e].pc = "fan_user" => toSeller \in ep[e].out
             /\ (ep[e].pc = "s_save" /\ ep[e].gen = "text") =>
                   toSeller \in ep[e].out /\ toUser \in ep[e].out
    /\ \A c \in EndCallers :
          LET ended(r) == [sid |-> call[c].sid, role |-> r, type |-> "session_ended",
                           message |-> NoMessage, sender |-> "none"]
          IN /\ call[c].pc = "e_seller" => ended("user") \in call[c].out
             /\ call[c].pc = "e_del" =>
                   ended("user") \in call[c].out /\ ended("seller") \in call[c].out

\* ---------------------------------------------------------------------
\* C17: in every run a seller handler that has accepted a message gets to
\* the outcome of its generation call: a reply appended or a failure
\* reported.
C17_TurnFinishes ==
    \A e \in SellerEps : (ep[e].pc = "gen") ~> (ep[e].gen \in {"text", "raise"})

\* ---------------------------------------------------------------------
\* C18: a start call whose target price exceeds its maximum budget is
\* refused, and every other start call is answered 200.
C18_StartValidates ==
    \A s \in DOMAIN startResp :
        startResp[s] # "none" =>
           IF session[s].user_params.target_price > session[s].user_params.max_budget
           THEN startResp[s] # "200" /\ s \notin active_sessions
           ELSE startResp[s] = "200"

\* ---------------------------------------------------------------------
\* C19: a start call that is answered with a failure has left no session in
\* active_sessions and none in the database.
C19_FailedStartLeavesNothing ==
    \A s \in Sessions :
        startResp[s] = "500" => s \notin active_sessions /\ db[s] = "none"

\* ---------------------------------------------------------------------
\* C20: a seller handler that has reported an error has appended no agent
\* entry in its turn, and one that has appended an agent entry reports no
\* error, whether or not its sends were delivered.
C20_ErrorOnlyWithoutReply ==
    \A e \in SellerEps :
        ep[e].pc \in SellerBusy =>
           LET s == ep[e].sid
               t == ep[e].turn
               errors == {p \in ep[e].out : p.type = "error"}
           IN /\ errors # {} => AgentEntries(s, t) = {} /\ ep[e].gen = "raise"
              /\ AgentEntries(s, t) # {} => errors = {} /\ ep[e].gen = "text"
              /\ Cardinality(errors) <= 1

\* ---------------------------------------------------------------------
\* C21: once an end call has sent session_ended to a role of a session, no
\* message, ai_response or error payload reaches a connected endpoint of that
\* role of the session.
EndedFor(s, role) ==
    \E c \in EndCallers :
        /\ call[c].sid = s
        /\ call[c].found
        /\ \E p \in call[c].out : p.type = "session_ended" /\ p.role = role

C21_SilentAfterEnded ==
    [][\A d \in wire' :
          (/\ d.type \in {"message", "ai_response", "error"}
           /\ d.to \in Endpoints
           /\ ep'[d.to].pc # "closed")
          => ~EndedFor(d.sid, d.role)]_vars

\* ---------------------------------------------------------------------
\* C22: a connection that waits for a message on an identifier that is not
\* in active_sessions never enters a handler: whatever it receives, it stays
\* in its receive loop (or disconnects) with nothing sent, no identifier
\* drawn for a message and no generation call; and while every open
\* connection is in that situation, in a step that is no segment of a start
\* or end call nothing changes a session, the database or the wire.
Unserved(e) == ep[e].pc = "recv" /\ ep[e].sid \notin active_sessions

C22_UnknownSessionDropped ==
    [][/\ \A e \in Endpoints :
             Unserved(e) =>
                /\ ep'[e].pc \in {"recv", "closed"}
                /\ ep'[e].out = {}
                /\ ep'[e].gen = "none"
                /\ ep'[e].turn = 0
       /\ ((\A e \in Endpoints : ep[e].pc = "closed" \/ Unserved(e))
           /\ startPc' = startPc /\ call' = call)
          => /\ session' = session
             /\ db' = db
             /\ counter' = counter
             /\ accepted' = accepted
             /\ wire' = {}]_vars

\* A seller and a user connection wait on a session that has been ended,
\* after the seller side took part in it.
C22_Witness ==
    \E e \in SellerEps, u \in UserEps :
        /\ Unserved(e)
        /\ Unserved(u)
        /\ ep[u].sid = ep[e].sid
        /\ session[ep[e].sid].status = "completed"
        /\ Len(session[ep[e].sid].messages) > 0

====
